---- MODULE Spec2Model ----
(***************************************************************************)
(* MapLoader (src/io/maploader.hpp): loadMapFromImg, loadVelocitiesFromImg *)
(* and loadMapFromText acting on an nDGridMap.                             *)
(*                                                                         *)
(* A loader is modelled by the sequence of calls it makes on the grid and  *)
(* on the decoded source; the grid (ndgridmap.hpp, outside src/) applies   *)
(* those calls one after the other.  One action is one whole loader call.  *)
(***************************************************************************)
EXTENDS Integers, Sequences, FiniteSets, TLC

(* ------------------------------ bounds -------------------------------- *)

\* Largest number of pixels of an image file on the disk.
MaxCells == 5

\* Largest width*height declared by a text file on the disk.
MaxTextCells == 4

\* Largest value an uninitialized unsigned int is taken to hold.
MaxUninit == 1

(* ---------------------------- constants ------------------------------- *)

\* The divisor of loadVelocitiesFromImg.
VelDivisor == 255

(* -------------------------- files on the disk ------------------------- *)

\* Raw pixel samples of an image file (first channel).
Samples == {0, 128, 255}

\* Image sizes (width, height), both at least 1.
ImgSizes ==
  {d \in (1..MaxCells) \X (1..MaxCells) : d[1] * d[2] <= MaxCells}

\* A decoded image: CImg keeps pixel (x, y) at offset x + y*width.
ImageFiles ==
  UNION {[kind : {"img"}, width : {d[1]}, height : {d[2]},
          data : [0..(d[1] * d[2] - 1) -> Samples]] : d \in ImgSizes}

\* Tokens of a text file after its first line.
LeafTokens == {"1.0", "0.5"}

NdimsTokens == {"2", "3"}

Digits == <<"0", "1", "2", "3", "4", "5", "6", "7", "8", "9">>

IsDigit(tok) == \E d \in 1..Len(Digits) : tok = Digits[d]

DigitValue(tok) == (CHOOSE d \in 1..Len(Digits) : tok = Digits[d]) - 1

TextSizes ==
  {d \in (1..MaxTextCells) \X (1..MaxTextCells) : d[1] * d[2] <= MaxTextCells}

\* All sequences of n occupancy tokens.
BitSeqs(n) == [1..n -> {"0", "1"}]

\* Well-formed files: leaf size, ndims, width, height, width*height tokens,
\* possibly followed by one more token.
WellFormedToks ==
  UNION {{<<l, nd, Digits[d[1] + 1], Digits[d[2] + 1]>> \o bits \o tail :
            l \in LeafTokens, nd \in NdimsTokens,
            bits \in BitSeqs(d[1] * d[2]), tail \in {<<>>, <<"0">>}}
         : d \in TextSizes}

\* Malformed files: a well-formed file cut short, or with one occupancy
\* token replaced by a non-numeric token or by a number that is not 0 or 1,
\* or (for the shortest files) with one header token replaced by a
\* non-numeric token.
Truncations(t) == {SubSeq(t, 1, k) : k \in 0..(Len(t) - 1)}

Corruptions(t) ==
  {[t EXCEPT ![p] = "x"] : p \in (IF Len(t) = 5 THEN 1 ELSE 5)..Len(t)}
    \cup {[t EXCEPT ![p] = "2"] : p \in 5..Len(t)}

MalformedToks ==
  UNION {Truncations(t) \cup Corruptions(t) :
           t \in {w \in WellFormedToks :
                    /\ w[1] = "0.5"
                    /\ w[2] = "2"
                    /\ Len(w) = 4 + DigitValue(w[3]) * DigitValue(w[4])}}

TextFiles == [kind : {"text"}, toks : WellFormedToks \cup MalformedToks]

Files == ImageFiles \cup TextFiles

\* The paths a caller can pass: the file on the disk, or a path that
\* does not exist.
Paths == {"map", "missing"}

(* ------------------------------ the grid ------------------------------ *)

\* A rational number num/den (den > 0), for leaf sizes and velocities.
Rat(n, d) == <<n, d>>

RatEq(a, b) == a[1] * b[2] = b[1] * a[2]

RatLeq(a, b) == a[1] * b[2] <= b[1] * a[2]

DefaultLeafSize == Rat(1, 1)

DefaultCell == [occ |-> TRUE, vel |-> Rat(1, 1)]

\* The leaf sizes a caller constructs its grid with.
CallerLeafSizes == {DefaultLeafSize, Rat(2, 1)}

\* A freshly constructed grid with leaf size l: no cells.
EmptyGrid(l) ==
  [dims |-> <<0, 0>>, leafsize |-> l,
   cells |-> [i \in {} |-> DefaultCell], occupied |-> <<>>]

\* How the grid's resize treats the cells it already has: "clear" resets
\* every cell, "keep" keeps the cells below the new size.
Policies == {"clear", "keep"}

VARIABLES
  disk,     \* the file stored under path "map"
  policy,   \* the resize behaviour of the grid class
  grid,     \* the caller's grid
  last      \* the last call: operation, path, result, calls made, repeat

vars == <<disk, policy, grid, last>>

\* The calls a loader makes on the grid.
ResizeCall(d) == [call |-> "resize", idx |-> -1, arg |-> d]

SetLeafSizeCall(l) == [call |-> "setLeafSize", idx |-> -1, arg |-> l]

SetOccupancyCall(i, b) == [call |-> "setOccupancy", idx |-> i, arg |-> b]

SetVelocityCall(i, v) == [call |-> "setVelocity", idx |-> i, arg |-> v]

SetOccupiedCellsCall(obs) ==
  [call |-> "setOccupiedCells", idx |-> -1, arg |-> obs]

\* nDGridMap::resize
Resize(g, d, pol) ==
  [g EXCEPT
     !.dims = d,
     !.cells = [i \in 0..(d[1] * d[2] - 1) |->
                  IF pol = "keep" /\ i \in DOMAIN g.cells
                    THEN g.cells[i] ELSE DefaultCell]]

\* nDGridMap::setLeafSize
SetLeafSize(g, l) == [g EXCEPT !.leafsize = l]

\* grid[idx].setOccupancy(b); a write outside the grid is dropped here, and
\* C9_EverySampleOneCell requires every written index to be inside the grid.
SetOccupancy(g, i, b) ==
  IF i \in DOMAIN g.cells THEN [g EXCEPT !.cells[i].occ = b] ELSE g

\* grid[idx].setVelocity(v)
SetVelocity(g, i, v) ==
  IF i \in DOMAIN g.cells THEN [g EXCEPT !.cells[i].vel = v] ELSE g

\* nDGridMap::setOccupiedCells: the registration replaces the former one.
SetOccupiedCells(g, obs) == [g EXCEPT !.occupied = obs]

ApplyCall(g, c, pol) ==
  CASE c.call = "resize" -> Resize(g, c.arg, pol)
    [] c.call = "setLeafSize" -> SetLeafSize(g, c.arg)
    [] c.call = "setOccupancy" -> SetOccupancy(g, c.idx, c.arg)
    [] c.call = "setVelocity" -> SetVelocity(g, c.idx, c.arg)
    [] c.call = "setOccupiedCells" -> SetOccupiedCells(g, c.arg)

RECURSIVE ApplyCalls(_, _, _)
ApplyCalls(g, cs, pol) ==
  IF cs = <<>> THEN g
  ELSE ApplyCalls(ApplyCall(g, Head(cs), pol), Tail(cs), pol)

(* --------------------------- image decoder ---------------------------- *)

\* CImg<bool> img(filename); img(x,y): the sample converted to bool.
PixelBool(img, x, y) == img.data[x + y * img.width] # 0

\* CImg<double> img(filename); img(x,y): the sample as a double.
PixelDouble(img, x, y) == img.data[x + y * img.width]

(* ------------------------- the image loaders -------------------------- *)

\* A variant that leaves out the Y flip.
ImgIdxNoFlip(width, height, x, y) == width * y + x

\* A variant that forgets the -1.
ImgIdxOffByOne(width, height, x, y) == width * (height - y) + x

\* unsigned int idx = img.width()*(img.height()-y-1)+x; with 0 <= y < height
\* the value is not negative, and it stays far below 2^32 for the sizes
\* modelled.
ImgIdx(width, height, x, y) == width * (height - y - 1) + x

\* A variant that also collects the traversable cells.
ObsPushAlways(obs, occupancy, idx) == Append(obs, idx)

\* if (occupancy == 0) obs.push_back(idx);
ObsPush(obs, occupancy, idx) ==
  IF occupancy = FALSE THEN Append(obs, idx) ELSE obs

\* The body of cimg_forXY(img,x,y) in loadMapFromImg, from the k-th pixel
\* on: y is the outer loop, x the inner one.
RECURSIVE MapImgLoop(_, _, _, _)
MapImgLoop(img, k, calls, obs) ==
  IF k >= img.width * img.height THEN [calls |-> calls, obs |-> obs]
  ELSE LET x == k % img.width
           y == k \div img.width
           occupancy == PixelBool(img, x, y)
           idx == ImgIdx(img.width, img.height, x, y)
       IN MapImgLoop(img, k + 1,
                     Append(calls, SetOccupancyCall(idx, occupancy)),
                     ObsPush(obs, occupancy, idx))

\* A variant that registers the blocked cells before the scan.
loadMapFromImgEarlyRegister(img, g) ==
  LET r == MapImgLoop(img, 0, <<>>, <<>>)
  IN <<ResizeCall(<<img.width, img.height>>), SetOccupiedCellsCall(r.obs)>>
       \o r.calls

\* A variant whose obs vector outlives the call: it starts from the cells
\* already registered with the grid.
loadMapFromImgStaticObs(img, g) ==
  LET r == MapImgLoop(img, 0, <<>>, g.occupied)
  IN <<ResizeCall(<<img.width, img.height>>)>> \o r.calls
       \o <<SetOccupiedCellsCall(r.obs)>>

\* MapLoader::loadMapFromImg(filename, grid): the calls made on the grid.
loadMapFromImg(img, g) ==
  LET r == MapImgLoop(img, 0, <<>>, <<>>)
  IN <<ResizeCall(<<img.width, img.height>>)>> \o r.calls
       \o <<SetOccupiedCellsCall(r.obs)>>

\* A variant that divides by 256.
NormalizeBy256(vel) == Rat(vel, VelDivisor + 1)

\* vel/255
Normalize(vel) == Rat(vel, VelDivisor)

\* The body of cimg_forXY(img,x,y) in loadVelocitiesFromImg.
RECURSIVE VelImgLoop(_, _, _)
VelImgLoop(img, k, calls) ==
  IF k >= img.width * img.height THEN calls
  ELSE LET x == k % img.width
           y == k \div img.width
           vel == PixelDouble(img, x, y)
           idx == ImgIdx(img.width, img.height, x, y)
       IN VelImgLoop(img, k + 1,
                     Append(calls, SetVelocityCall(idx, Normalize(vel))))

\* A variant that also registers an empty blocked-cell sequence.
loadVelocitiesFromImgRegister(img, g) ==
  <<ResizeCall(<<img.width, img.height>>)>> \o VelImgLoop(img, 0, <<>>)
    \o <<SetOccupiedCellsCall(<<>>)>>

\* MapLoader::loadVelocitiesFromImg(filename, grid): the calls made on the
\* grid.
loadVelocitiesFromImg(img, g) ==
  <<ResizeCall(<<img.width, img.height>>)>> \o VelImgLoop(img, 0, <<>>)

(* -------------------------- the text loader --------------------------- *)

\* std::ifstream after std::getline has discarded the first line: the
\* tokens, the position of the next token and the failbit.
OpenStream(toks) == [toks |-> toks, pos |-> 1, fail |-> FALSE]

IsDouble(tok) == tok \in {"1.0", "0.5"} \/ IsDigit(tok)

DoubleValue(tok) ==
  CASE tok = "1.0" -> Rat(1, 1)
    [] tok = "0.5" -> Rat(1, 2)
    [] OTHER -> Rat(DigitValue(tok), 1)

\* operator>> on a stream, for a double or an unsigned int: with the
\* failbit set, or at the end of the file, the variable is not assigned
\* (set = FALSE) and the failbit is set; a token that does not parse assigns
\* zero and sets the failbit.
Extract(s, type) ==
  LET zero == IF type = "double" THEN Rat(0, 1) ELSE 0
  IN IF s.fail THEN [s |-> s, set |-> FALSE, val |-> zero]
     ELSE IF s.pos > Len(s.toks)
       THEN [s |-> [s EXCEPT !.fail = TRUE], set |-> FALSE, val |-> zero]
     ELSE LET tok == s.toks[s.pos]
              parses == IF type = "double" THEN IsDouble(tok) ELSE IsDigit(tok)
          IN IF ~parses
               THEN [s |-> [s EXCEPT !.fail = TRUE], set |-> TRUE,
                     val |-> zero]
               ELSE [s |-> [s EXCEPT !.pos = s.pos + 1], set |-> TRUE,
                     val |-> IF type = "double" THEN DoubleValue(tok)
                             ELSE DigitValue(tok)]

\* file >> leafsize (double)
ExtractDouble(s) == Extract(s, "double")

\* file >> width (unsigned int, size_t)
ExtractUInt(s) == Extract(s, "uint")

\* file >> occupancy (bool): 0 and 1 are false and true, another number
\* assigns true and sets the failbit.
ExtractBool(s) ==
  LET e == ExtractUInt(s)
  IN IF e.set /\ ~e.s.fail /\ e.val > 1
       THEN [s |-> [e.s EXCEPT !.fail = TRUE], set |-> TRUE, val |-> TRUE]
       ELSE [s |-> e.s, set |-> e.set, val |-> (e.val = 1)]

\* The value a local variable holds after an extraction: the extracted
\* value, or what the uninitialized variable happened to hold.
Local(e, uninit) == IF e.set THEN e.val ELSE uninit

\* The four header extractions of loadMapFromText, in order.
ReadHeader(toks) ==
  LET e1 == ExtractDouble(OpenStream(toks))
      e2 == ExtractUInt(e1.s)
      e3 == ExtractUInt(e2.s)
      e4 == ExtractUInt(e3.s)
  IN [leafsize |-> e1, ndims_aux |-> e2, width |-> e3, height |-> e4]

\* A variant that leaves the loop at the first extraction that fails.
RECURSIVE TextLoopStopOnFail(_, _, _, _, _, _)
TextLoopStopOnFail(s, i, n, u, calls, obs) ==
  IF i >= n THEN [s |-> s, calls |-> calls, obs |-> obs]
  ELSE LET e == ExtractBool(s)
           occupancy == Local(e, u.occupancy[i])
       IN IF e.s.fail THEN [s |-> e.s, calls |-> calls, obs |-> obs]
          ELSE TextLoopStopOnFail(e.s, i + 1, n, u,
                 Append(calls, SetOccupancyCall(i, occupancy)),
                 IF ~occupancy THEN Append(obs, i) ELSE obs)

\* for (unsigned int i = 0; i < width*height; ++i) { ... }: from index i on.
\* u.occupancy[i] is what the uninitialized bool of iteration i holds.
RECURSIVE TextLoop(_, _, _, _, _, _)
TextLoop(s, i, n, u, calls, obs) ==
  IF i >= n THEN [s |-> s, calls |-> calls, obs |-> obs]
  ELSE LET e == ExtractBool(s)
           occupancy == Local(e, u.occupancy[i])
       IN TextLoop(e.s, i + 1, n, u,
                   Append(calls, SetOccupancyCall(i, occupancy)),
                   IF ~occupancy THEN Append(obs, i) ELSE obs)

\* The dimensions loadMapFromText passes to resize.
TextDims(h, u) == <<Local(h.width, u.width), Local(h.height, u.height)>>

\* A variant that refuses a file whose declared ndims is not 2.
loadMapFromTextOpenedChecksNdims(toks, u) ==
  LET h == ReadHeader(toks)
      leafsize == Local(h.leafsize, u.leafsize)
      dimsize == TextDims(h, u)
      n == dimsize[1] * dimsize[2]
      r == TextLoop(h.height.s, 0, n, u, <<>>, <<>>)
  IN IF h.ndims_aux.set /\ h.ndims_aux.val # 2
       THEN [ret |-> 0, calls |-> <<>>, consumed |-> 2]
       ELSE [ret |-> 1,
             calls |-> <<ResizeCall(dimsize), SetLeafSizeCall(leafsize)>>
                         \o r.calls \o <<SetOccupiedCellsCall(r.obs)>>,
             consumed |-> r.s.pos - 1]

\* MapLoader::loadMapFromText(filename, grid) on a file that opens: the
\* result, the calls made on the grid and the tokens consumed.
loadMapFromTextOpened(toks, u) ==
  LET h == ReadHeader(toks)
      leafsize == Local(h.leafsize, u.leafsize)
      dimsize == TextDims(h, u)
      n == dimsize[1] * dimsize[2]
      r == TextLoop(h.height.s, 0, n, u, <<>>, <<>>)
  IN [ret |-> 1,
      calls |-> <<ResizeCall(dimsize), SetLeafSizeCall(leafsize)>>
                  \o r.calls \o <<SetOccupiedCellsCall(r.obs)>>,
      consumed |-> r.s.pos - 1]

\* A variant that registers the empty obs vector before it returns 0.
loadMapFromTextNotFoundRegisters ==
  [ret |-> 0, calls |-> <<SetOccupiedCellsCall(<<>>)>>, consumed |-> 0]

\* MapLoader::loadMapFromText on a path that does not open.
loadMapFromTextNotFound == [ret |-> 0, calls |-> <<>>, consumed |-> 0]

\* MapLoader::loadMapFromText(filename, grid)
loadMapFromText(is_open, toks, u) ==
  IF is_open THEN loadMapFromTextOpened(toks, u) ELSE loadMapFromTextNotFound

\* The values the uninitialized locals of loadMapFromText can hold, for the
\* locals that the file leaves unassigned (a fixed value for the others).
UninitDims(toks) ==
  LET h == ReadHeader(toks)
  IN {d \in (IF h.width.set THEN {0} ELSE 0..MaxUninit)
              \X (IF h.height.set THEN {0} ELSE 0..MaxUninit) :
        TextDims(h, [width |-> d[1], height |-> d[2]])[1]
          * TextDims(h, [width |-> d[1], height |-> d[2]])[2] <= MaxTextCells}

\* The indices whose occupancy token is not assigned by the extraction.
RECURSIVE UnassignedFrom(_, _, _)
UnassignedFrom(s, i, n) ==
  IF i >= n THEN {}
  ELSE LET e == ExtractBool(s)
       IN (IF e.set THEN {} ELSE {i}) \cup UnassignedFrom(e.s, i + 1, n)

UninitLocals(toks) ==
  LET h == ReadHeader(toks)
  IN UNION {
       LET dimsize == TextDims(h, [width |-> d[1], height |-> d[2]])
           n == dimsize[1] * dimsize[2]
           un == UnassignedFrom(h.height.s, 0, n)
       IN [leafsize : IF h.leafsize.set THEN {Rat(0, 1)}
                      ELSE {Rat(0, 1), Rat(7, 2)},
           width : {d[1]}, height : {d[2]},
           occupancy : {[i \in 0..(n - 1) |-> i \in un /\ i \in b] :
                          b \in SUBSET un}]
       : d \in UninitDims(toks)}

(* ------------------------------ actions ------------------------------- *)

\* The result recorded for the loaders that return void.
Void == -1

NoCall ==
  [op |-> "none", path |-> "none", ret |-> Void, calls |-> <<>>,
   consumed |-> 0, repeat |-> FALSE]

\* The record of a call: repeat tells that the call before it was the same
\* operation on the same path.
Record(op, path, ret, calls, consumed) ==
  [op |-> op, path |-> path, ret |-> ret, calls |-> calls,
   consumed |-> consumed, repeat |-> (last.op = op /\ last.path = path)]

Init ==
  /\ disk \in Files
  /\ policy \in Policies
  /\ \E l \in CallerLeafSizes : grid = EmptyGrid(l)
  /\ last = NoCall

\* MapLoader::loadMapFromImg("map", grid)
LoadMapFromImg ==
  /\ disk.kind = "img"
  /\ LET calls == loadMapFromImg(disk, grid)
     IN /\ grid' = ApplyCalls(grid, calls, policy)
        /\ last' = Record("loadMapFromImg", "map", Void, calls, 0)
  /\ UNCHANGED <<disk, policy>>

\* MapLoader::loadVelocitiesFromImg("map", grid)
LoadVelocitiesFromImg ==
  /\ disk.kind = "img"
  /\ LET calls == loadVelocitiesFromImg(disk, grid)
     IN /\ grid' = ApplyCalls(grid, calls, policy)
        /\ last' = Record("loadVelocitiesFromImg", "map", Void, calls, 0)
  /\ UNCHANGED <<disk, policy>>

\* file.open(filename); file.is_open()
IsOpen(path, d) == path = "map" /\ d.kind = "text"

\* MapLoader::loadMapFromText(path, grid)
LoadMapFromText ==
  \E path \in Paths :
    /\ path = "map" => disk.kind = "text"
    /\ \E u \in (IF IsOpen(path, disk) THEN UninitLocals(disk.toks)
                 ELSE {<<>>}) :
         LET r == loadMapFromText(IsOpen(path, disk),
                                  IF IsOpen(path, disk) THEN disk.toks
                                  ELSE <<>>, u)
         IN /\ grid' = ApplyCalls(grid, r.calls, policy)
            /\ last' = Record("loadMapFromText", path, r.ret, r.calls,
                              r.consumed)
      /\ UNCHANGED <<disk, policy>>

Next ==
  \/ LoadMapFromImg
  \/ LoadVelocitiesFromImg
  \/ LoadMapFromText

Spec == Init /\ [][Next]_vars

(* ------------------------------ properties ---------------------------- *)

CallsNamed(calls, name) == SelectSeq(calls, LAMBDA c : c.call = name)

CellWrites(calls) ==
  SelectSeq(calls, LAMBDA c : c.call \in {"setOccupancy", "setVelocity"})

Range(f) == {f[i] : i \in DOMAIN f}

StrictlyAscending(f) ==
  \A p, q \in DOMAIN f : p < q => f[p] < f[q]

\* The last call was this image loader on the image of the disk.
AfterImg(op) == last.op = op /\ disk.kind = "img"

\* The last call was loadMapFromText on a file that opened.
AfterTextOpened == last.op = "loadMapFromText" /\ IsOpen(last.path, disk)

\* A text file with a leaf size, a declared ndims, a width W >= 1, a height
\* H >= 1 and at least W*H tokens that are 0 or 1.
IsWellFormed(toks) ==
  /\ Len(toks) >= 4
  /\ toks[1] \in LeafTokens
  /\ toks[2] \in NdimsTokens
  /\ IsDigit(toks[3]) /\ DigitValue(toks[3]) >= 1
  /\ IsDigit(toks[4]) /\ DigitValue(toks[4]) >= 1
  /\ Len(toks) >= 4 + DigitValue(toks[3]) * DigitValue(toks[4])
  /\ \A p \in 5..(4 + DigitValue(toks[3]) * DigitValue(toks[4])) :
       toks[p] \in {"0", "1"}

AfterTextWellFormed == AfterTextOpened /\ IsWellFormed(disk.toks)

\* C1: after loadMapFromImg on a W x H image the grid has dimensions (W, H)
\* and W*H cells, and the cell at W*(H-y-1)+x holds the boolean sample of
\* pixel (x, y), for every pixel, whatever the parity of H.
C1_OccupancyIsFlippedImage ==
  AfterImg("loadMapFromImg") =>
    LET W == disk.width
        H == disk.height
    IN /\ grid.dims = <<W, H>>
       /\ DOMAIN grid.cells = 0..(W * H - 1)
       /\ \A x \in 0..(W - 1), y \in 0..(H - 1) :
            grid.cells[W * (H - y - 1) + x].occ = (disk.data[x + y * W] # 0)

\* An odd height with a traversable top-left pixel and a blocked pixel.
C1_Witness ==
  /\ AfterImg("loadMapFromImg")
  /\ disk.height = 3
  /\ disk.data[0] # 0
  /\ \E k \in DOMAIN disk.data : disk.data[k] = 0

\* The position of the pixel behind grid index i in the scan of the image
\* (rows top to bottom, columns left to right).
ScanPos(i, W, H) == (H - 1 - (i \div W)) * W + (i % W)

\* C2: the sequence loadMapFromImg passes to setOccupiedCells holds exactly
\* the indices whose occupancy is false, each once, in the order of the
\* scan of the image (image rows top to bottom, which are the flipped rows,
\* and columns ascending within a row).
C2_BlockedSequenceInScanOrder ==
  AfterImg("loadMapFromImg") =>
    LET W == disk.width
        H == disk.height
        reg == CallsNamed(last.calls, "setOccupiedCells")
        obs == reg[1].arg
    IN /\ Len(reg) = 1
       /\ Range(obs) = {i \in DOMAIN grid.cells : ~grid.cells[i].occ}
       /\ Len(obs) = Cardinality(Range(obs))
       /\ \A p, q \in DOMAIN obs :
            p < q => ScanPos(obs[p], W, H) < ScanPos(obs[q], W, H)
       /\ \A p, q \in DOMAIN obs :
            (p < q /\ obs[p] \div W = obs[q] \div W) => obs[p] < obs[q]
       /\ grid.occupied = obs

\* Blocked pixels in two rows: the sequence holds the upper image row (the
\* larger indices) first.
C2_Witness ==
  /\ AfterImg("loadMapFromImg")
  /\ Len(grid.occupied) >= 2
  /\ grid.occupied[1] > grid.occupied[2]
  /\ \E i \in DOMAIN grid.cells : grid.cells[i].occ

\* C3: loadMapFromText on a path that cannot be opened returns 0, makes no
\* call on the grid (no resize, setLeafSize, cell write, setOccupiedCells)
\* and leaves the grid as it was.
C3_NotFoundLeavesGridUntouched ==
  [][(last'.op = "loadMapFromText" /\ ~IsOpen(last'.path, disk'))
       => /\ last'.ret = 0
          /\ last'.calls = <<>>
          /\ grid' = grid]_vars

\* A failed load on a grid that an earlier load had filled.
C3_Witness ==
  /\ last.op = "loadMapFromText"
  /\ ~IsOpen(last.path, disk)
  /\ last.ret = 0
  /\ grid.dims # <<0, 0>>
  /\ grid.occupied # <<>>

C5_VelocityIsSampleOver255 ==
  AfterImg("loadVelocitiesFromImg") =>
    LET W == disk.width
        H == disk.height
    IN /\ grid.dims = <<W, H>>
       /\ DOMAIN grid.cells = 0..(W * H - 1)
       /\ \A x \in 0..(W - 1), y \in 0..(H - 1) :
            LET sample == disk.data[x + y * W]
                v == grid.cells[W * (H - y - 1) + x].vel
            IN /\ RatEq(v, Rat(sample, 255))
               /\ RatLeq(Rat(0, 1), v) /\ RatLeq(v, Rat(1, 1))
               /\ sample = 0 => RatEq(v, Rat(0, 1))
               /\ sample = 255 => RatEq(v, Rat(1, 1))

\* An image with the samples 255 and 128 one above the other.
C5_Witness ==
  /\ AfterImg("loadVelocitiesFromImg")
  /\ disk.width = 1 /\ disk.height >= 2
  /\ disk.data[0] = 255 /\ disk.data[1] = 128

C7_ImageLoadIdempotent ==
  [][(last'.repeat /\ last'.op \in {"loadMapFromImg", "loadVelocitiesFromImg"})
       => grid' = grid]_vars

\* A second loadMapFromImg in a row, with blocked cells registered.
C7_Witness ==
  /\ AfterImg("loadMapFromImg")
  /\ last.repeat
  /\ grid.occupied # <<>>

\* C8: every load that reaches the grid calls resize once, as its first
\* call, with the dimensions of the source; the occupancy loaders call
\* setOccupiedCells once, as their last call, after every cell write.
C8_ResizeFirstRegisterLast ==
  LET calls == last.calls
      n == Len(calls)
      reaches == \/ AfterImg("loadMapFromImg")
                 \/ AfterImg("loadVelocitiesFromImg")
                 \/ AfterTextOpened
      occupancy == AfterImg("loadMapFromImg") \/ AfterTextOpened
  IN /\ reaches =>
          /\ n >= 1
          /\ calls[1].call = "resize"
          /\ Len(CallsNamed(calls, "resize")) = 1
          /\ disk.kind = "img" => calls[1].arg = <<disk.width, disk.height>>
          /\ AfterTextWellFormed =>
               calls[1].arg = <<DigitValue(disk.toks[3]),
                                DigitValue(disk.toks[4])>>
          /\ grid.dims = calls[1].arg
     /\ occupancy =>
          /\ Len(CallsNamed(calls, "setOccupiedCells")) = 1
          /\ calls[n].call = "setOccupiedCells"
          /\ \A k \in 1..n : calls[k].call = "setOccupancy" => 1 < k /\ k < n

\* An occupancy load of a text file with four cell writes.
C8_Witness ==
  /\ AfterTextWellFormed
  /\ Len(CallsNamed(last.calls, "setOccupancy")) = 4
  /\ last.calls[Len(last.calls)].call = "setOccupiedCells"

\* C9: on a well-formed W x H source, the cell writes of a load are W*H
\* writes, one per sample, whose indices lie in 0..W*H-1 and are pairwise
\* distinct, so every index is written exactly once.
C9_EverySampleOneCell ==
  LET writes == CellWrites(last.calls)
      wellformed == \/ AfterImg("loadMapFromImg")
                    \/ AfterImg("loadVelocitiesFromImg")
                    \/ AfterTextWellFormed
      size == IF disk.kind = "img" THEN disk.width * disk.height
              ELSE DigitValue(disk.toks[3]) * DigitValue(disk.toks[4])
  IN wellformed =>
       /\ Len(writes) = size
       /\ \A k \in DOMAIN writes : writes[k].idx \in 0..(size - 1)
       /\ \A k, l \in DOMAIN writes :
            k # l => writes[k].idx # writes[l].idx
       /\ \A i \in 0..(size - 1) :
            Cardinality({k \in DOMAIN writes : writes[k].idx = i}) = 1
       /\ \A k \in DOMAIN writes : writes[k].idx \in DOMAIN grid.cells

\* A 2 x 2 image loaded by an image loader.
C9_Witness ==
  /\ \/ AfterImg("loadMapFromImg")
     \/ AfterImg("loadVelocitiesFromImg")
  /\ disk.width = 2 /\ disk.height = 2
  /\ Len(CellWrites(last.calls)) = 4

====
